---- MODULE Spec2Model ----
(***************************************************************************)
(* Model of the three extraction pipelines of the repository:              *)
(*   data_extraction_leyre        (DHIS2 analytics  -> CSV)                *)
(*   dhis2_data_extraction_lionel (DHIS2 data set   -> filtered frame)     *)
(*   rita_iaso_exercise           (IASO org units   -> CSV)                *)
(* Text is modelled as a sequence of one-character strings; the two        *)
(* non-ASCII characters of the country list are the tokens "o_circ"        *)
(* (o with circumflex) and "rsquo" (right single quotation mark U+2019).   *)
(* The lines written to the run log (current_run.log_info, print) are not  *)
(* part of the state.                                                      *)
(***************************************************************************)
EXTENDS Integers, Sequences, FiniteSets, TLC

VARIABLES pipeline, pc, args, locals, error, calls, net, dirs, files, outputs,
          invA, invB, pathA, pathB

vars == <<pipeline, pc, args, locals, error, calls, net, dirs, files, outputs,
          invA, invB, pathA, pathB>>

runVars == <<pipeline, pc, args, locals, error, calls, net, dirs, files, outputs>>
nameVars == <<invA, invB, pathA, pathB>>

(* ---------------------------- bounds ---------------------------------- *)
FirstYear == 2023
NumYears == 2
MaxRecords == 2
MaxOrgUnits == 2

(* ------------------------ generic helpers ----------------------------- *)
Null == "NULL"

Digits == <<"0","1","2","3","4","5","6","7","8","9">>

IsDigit(c) == \E i \in 1..10 : Digits[i] = c

DigitVal(c) == (CHOOSE i \in 1..10 : Digits[i] = c) - 1

DigitChar(n) == Digits[n + 1]

RECURSIVE Concat(_)
Concat(ss) == IF ss = <<>> THEN <<>> ELSE Head(ss) \o Concat(Tail(ss))

\* Python's sep.join(items)
RECURSIVE Join(_, _)
Join(sep, items) ==
  IF items = <<>> THEN <<>>
  ELSE IF Len(items) = 1 THEN items[1]
  ELSE items[1] \o sep \o Join(sep, Tail(items))

Put(f, k, v) == [x \in DOMAIN f \cup {k} |-> IF x = k THEN v ELSE f[x]]

Range(s) == {s[i] : i \in DOMAIN s}

(* ------------------------- calendar dates ----------------------------- *)
IsLeap(y) == (y % 4 = 0 /\ y % 100 # 0) \/ y % 400 = 0

DaysInMonth(y, m) ==
  IF m = 2 THEN (IF IsLeap(y) THEN 29 ELSE 28)
  ELSE IF m \in {4, 6, 9, 11} THEN 30 ELSE 31

DateLeq(a, b) ==
  \/ a[1] < b[1]
  \/ a[1] = b[1] /\ a[2] < b[2]
  \/ a[1] = b[1] /\ a[2] = b[2] /\ a[3] <= b[3]

\* pd.to_datetime(s, format="%Y%m") accepts four year digits followed by
\* two month digits 01..12; anything else raises ValueError.
IsYm(s) ==
  /\ Len(s) = 6
  /\ \A i \in 1..6 : IsDigit(s[i])
  /\ DigitVal(s[5]) * 10 + DigitVal(s[6]) \in 1..12

\* the Timestamp of a %Y%m string: the first day of that month
ParseYm(s) ==
  << DigitVal(s[1]) * 1000 + DigitVal(s[2]) * 100
       + DigitVal(s[3]) * 10 + DigitVal(s[4]),
     DigitVal(s[5]) * 10 + DigitVal(s[6]),
     1 >>

\* Timestamp.strftime("%Y%m")
FormatYm(d) ==
  << DigitChar(d[1] \div 1000), DigitChar((d[1] \div 100) % 10),
     DigitChar((d[1] \div 10) % 10), DigitChar(d[1] % 10),
     DigitChar(d[2] \div 10), DigitChar(d[2] % 10) >>

\* the end date left at the first day of its month
MonthEndNoRoll(d) == d

\* d + pd.offsets.MonthEnd(0): roll forward to the month end, a month end
\* stays where it is.
MonthEnd0(d) == <<d[1], d[2], DaysInMonth(d[1], d[2])>>

\* the month end that follows a month end
NextMonthEnd(d) ==
  IF d[2] = 12 THEN <<d[1] + 1, 1, 31>>
  ELSE <<d[1], d[2] + 1, DaysInMonth(d[1], d[2] + 1)>>

\* pd.date_range(start, end, freq="ME"): every month end t with
\* start <= t <= end, ascending; the first one is the month end on or
\* after start.
RECURSIVE MonthEndsFrom(_, _)
MonthEndsFrom(t, end) ==
  IF DateLeq(t, end) THEN <<t>> \o MonthEndsFrom(NextMonthEnd(t), end)
  ELSE <<>>

date_range_ME(start, end) ==
  MonthEndsFrom(<<start[1], start[2], DaysInMonth(start[1], start[2])>>, end)

\* get_periods(start_date, end_date): the list, or the ValueError that
\* pd.to_datetime raises on a string that is not %Y%m.
get_periods_fn(start_date, end_date) ==
  IF ~IsYm(start_date) \/ ~IsYm(end_date)
  THEN [err |-> "ValueError", val |-> <<>>]
  ELSE LET start == ParseYm(start_date)
           end == MonthEnd0(ParseYm(end_date))
           stamps == date_range_ME(start, end)
       IN [err |-> "none",
           val |-> [i \in 1..Len(stamps) |-> FormatYm(stamps[i])]]

(* --------------------------- data frames ------------------------------ *)
\* A frame is [columns |-> sequence of names, rows |-> sequence of
\* mappings column -> value]; Null is None / NaN.

\* dict.get(key)
DictGet(d, k) == IF k \in DOMAIN d THEN d[k] ELSE Null

\* the keys of a raw record, in the order the upstream API lists them
KeyOrder ==
  <<"dx", "ou", "pe", "co", "value",
    "name", "id", "parent_id", "org_unit_type_id", "org_unit_type_name",
    "validation_status", "created_at", "updated_at", "latitude",
    "longitude", "altitude", "aliases">>

KeysOf(d) == SelectSeq(KeyOrder, LAMBDA k : k \in DOMAIN d)

\* the columns of pd.concat(frames): the union, in order of first appearance
RECURSIVE UnionColumns(_, _)
UnionColumns(acc, elements) ==
  IF elements = <<>> THEN acc
  ELSE UnionColumns(
         acc \o SelectSeq(KeysOf(Head(elements)),
                          LAMBDA k : k \notin Range(acc)),
         Tail(elements))

\* format_elements(elements): one single-row frame per element, then
\* pd.concat(list_df, ignore_index=True); pd.concat of an empty list
\* raises ValueError("No objects to concatenate").
format_elements_fn(elements) ==
  IF elements = <<>>
  THEN [err |-> "ValueError", val |-> [columns |-> <<>>, rows |-> <<>>]]
  ELSE LET cols == UnionColumns(<<>>, elements)
       IN [err |-> "none",
           val |-> [columns |-> cols,
                    rows |-> [i \in 1..Len(elements) |->
                               [c \in Range(cols) |->
                                  DictGet(elements[i], c)]]]]

\* the display name the DHIS2 metadata gives for a code
MetaName(code) == IF code = Null THEN Null ELSE code \o "_name"

\* dhis2.meta.add_*_name_column(dataframe=df): a new column <id>_name
\* looked up from column <id>
AddNameColumn(df, idcol) ==
  LET namecol == idcol \o "_name"
  IN [columns |-> Append(df.columns, namecol),
      rows |-> [i \in 1..Len(df.rows) |->
                 [c \in Range(df.columns) \cup {namecol} |->
                    IF c = namecol THEN MetaName(df.rows[i][idcol])
                    ELSE df.rows[i][c]]]]

\* get_metadata_info(dhis2, df): org unit, data element and
\* category-option-combo names, in that order
MetaIdColumns == <<"ou", "dx", "co">>

get_metadata_info_fn(df) ==
  IF \E i \in 1..3 : MetaIdColumns[i] \notin Range(df.columns)
  THEN [err |-> "KeyError", val |-> df]
  ELSE [err |-> "none",
        val |-> AddNameColumn(AddNameColumn(AddNameColumn(df, "ou"), "dx"),
                              "co")]

\* format_df: dict_rename
dict_rename ==
  [dx |-> "dataElement", ou |-> "orgUnit", pe |-> "period",
   value |-> "value", ou_name |-> "orgUnitName",
   dx_name |-> "dataElementName", co_name |-> "categoryOptionComboName",
   co |-> "CategoryOption"]

\* format_df: list_output
list_output ==
  <<"dataElement", "dataElementName", "CategoryOption",
    "categoryOptionComboName", "orgUnit", "orgUnitName", "period", "value">>

RenameCol(c) == IF c \in DOMAIN dict_rename THEN dict_rename[c] ELSE c

\* df.rename(columns=dict_rename)
RenameColumns(df) ==
  [columns |-> [i \in 1..Len(df.columns) |-> RenameCol(df.columns[i])],
   rows |-> [i \in 1..Len(df.rows) |->
              [c \in {RenameCol(x) : x \in Range(df.columns)} |->
                 LET old == CHOOSE x \in Range(df.columns) : RenameCol(x) = c
                 IN df.rows[i][old]]]]

\* df[list_output]: KeyError when a listed column is not in the frame
SelectColumns(df, cols) ==
  IF \E i \in 1..Len(cols) : cols[i] \notin Range(df.columns)
  THEN [err |-> "KeyError", val |-> df]
  ELSE [err |-> "none",
        val |-> [columns |-> cols,
                 rows |-> [i \in 1..Len(df.rows) |->
                            [c \in Range(cols) |-> df.rows[i][c]]]]]

\* format_df(df, dhis2)
format_df_fn(df) ==
  LET meta == get_metadata_info_fn(df)
  IN IF meta.err # "none" THEN meta
     ELSE SelectColumns(RenameColumns(meta.val), list_output)

\* DataFrame.to_csv(path, index=False): the header line, then one line per
\* row; a null cell is written as the empty field
CsvCell(v) == IF v = Null THEN "" ELSE v

to_csv(df) ==
  <<df.columns>> \o
  [i \in 1..Len(df.rows) |->
     [j \in 1..Len(df.columns) |-> CsvCell(df.rows[i][df.columns[j]])]]

(* ------------------------- input domains ------------------------------ *)
RECURSIVE SeqsUpTo(_, _)
SeqsUpTo(S, n) ==
  IF n = 0 THEN {<<>>}
  ELSE LET shorter == SeqsUpTo(S, n - 1)
       IN shorter \cup {Append(s, x) : s \in shorter, x \in S}

\* year-month parameter strings: every month (and the non-months 00 and 13)
\* of the modelled years
YearMonthStrings ==
  {FormatYm(<<y, m, 1>>) : y \in FirstYear..(FirstYear + NumYears - 1),
                           m \in 0..13}

\* organisation-unit identifiers a caller may pass (the parameter is any str)
OrgUnitIdSamples == {<<"A">>, <<"B">>, <<"A", ",", "B">>}

OrgUnitLists == SeqsUpTo(OrgUnitIdSamples, MaxOrgUnits)

\* start/end dates of the pipeline runs: two months and a malformed string
RunDateSamples ==
  {<<"2","0","2","3","0","1">>, <<"2","0","2","3","0","3">>,
   <<"2","0","2","3","-","1">>}

\* analytics rows as the DHIS2 API returns them; the last two lack a field
ElementSamples ==
  {[dx |-> "de1", ou |-> "ou1", pe |-> "202301", co |-> "co1", value |-> "5"],
   [dx |-> "de2", ou |-> "ou2", pe |-> "202302", co |-> "co2", value |-> "7"],
   [dx |-> "de1", ou |-> "ou1", pe |-> "202303", co |-> "co1"],
   [dx |-> "de2", ou |-> "ou1", pe |-> "202301", value |-> "9"]}

ElementLists == SeqsUpTo(ElementSamples, MaxRecords)

(* ------------------ data_extraction_leyre: file name ------------------ *)
\* config.list_data_elements
list_data_elements == << <<"d","e","1">>, <<"d","e","2">> >>

\* workspace.files_path
files_path == <<"/","w","s">>

\* create_file_name(org_units, start_date, end_date)
create_file_name_fn(org_units, start_date, end_date) ==
  LET ous == Join(<<",">>, org_units)
      data_elements == Join(<<",">>, list_data_elements)
      file_name ==
        Concat(<< <<"d","a","t","a","e","x","t","r","a","c","t","i","o","n",
                    "_","o","u","s","-">>,
                  ous,
                  <<"_","e","l","e","m","e","n","t","s","-">>,
                  data_elements,
                  <<"_","p","e","r","i","o","d","s","-">>,
                  start_date, <<"_">>, end_date,
                  <<".","c","s","v">> >>)
  IN files_path \o <<"/">> \o file_name

(* ------------------------- run bookkeeping ---------------------------- *)
Fail(e) == pc' = "failed" /\ error' = e

Goto(step) == pc' = step /\ error' = error

Call(fn) == calls' = Append(calls, fn)

\* what the caller sees of a response: the status, whether the body parses
\* as JSON, and the keys of the JSON object
Seen(status, json, keys) == [status |-> status, json |-> json, keys |-> keys]

Answered == Seen(200, TRUE, {})

Refused == Seen(500, TRUE, {})

Request(kind, detail, response) ==
  net' = Append(net, [kind |-> kind, detail |-> detail, response |-> response])

(* ------------------ data_extraction_leyre: the tasks ------------------ *)
\* get_dhis2: the workspace connection (which may not exist), then the
\* DHIS2 client, which logs in to the server
get_dhis2 ==
  /\ pipeline = "leyre" /\ pc = "get_dhis2"
  /\ Call("get_dhis2")
  /\ \/ /\ Request("dhis2_connect", <<>>, Answered)
        /\ Goto("get_periods")
        /\ locals' = Put(locals, "dhis2", "DHIS2")
     \/ /\ Request("dhis2_connect", <<>>, Refused)
        /\ Fail("ConnectionError")
        /\ locals' = locals
     \/ /\ Fail("ConnectionDoesNotExist")
        /\ UNCHANGED <<net, locals>>
  /\ UNCHANGED <<pipeline, args, dirs, files, outputs, nameVars>>

get_periods ==
  /\ pipeline = "leyre" /\ pc = "get_periods"
  /\ Call("get_periods")
  /\ LET r == get_periods_fn(args.start_date, args.end_date)
     IN IF r.err = "none"
        THEN Goto("get_elements") /\ locals' = Put(locals, "periods", r.val)
        ELSE Fail(r.err) /\ locals' = locals
  /\ UNCHANGED <<pipeline, args, net, dirs, files, outputs, nameVars>>

\* get_elements: dhis2.analytics.get(...), which raises on an HTTP error
get_elements ==
  /\ pipeline = "leyre" /\ pc = "get_elements"
  /\ Call("get_elements")
  /\ \/ /\ Request("analytics", Join(<<";">>, args.org_units), Answered)
        /\ \E elements \in ElementLists :
             Goto("format_elements")
             /\ locals' = Put(locals, "elements", elements)
     \/ /\ Request("analytics", Join(<<";">>, args.org_units), Refused)
        /\ Fail("HTTPError")
        /\ locals' = locals
  /\ UNCHANGED <<pipeline, args, dirs, files, outputs, nameVars>>

format_elements ==
  /\ pipeline = "leyre" /\ pc = "format_elements"
  /\ Call("format_elements")
  /\ LET r == format_elements_fn(locals.elements)
     IN IF r.err = "none"
        THEN Goto("format_df") /\ locals' = Put(locals, "df_elements", r.val)
        ELSE Fail(r.err) /\ locals' = locals
  /\ UNCHANGED <<pipeline, args, net, dirs, files, outputs, nameVars>>

\* format_df: the metadata lookups are requests to the DHIS2 server
format_df ==
  /\ pipeline = "leyre" /\ pc = "format_df"
  /\ Call("format_df")
  /\ \/ /\ Request("metadata", <<>>, Answered)
        /\ LET r == format_df_fn(locals.df_elements)
           IN IF r.err = "none"
              THEN Goto("create_file_name")
                   /\ locals' = Put(locals, "df_final", r.val)
              ELSE Fail(r.err) /\ locals' = locals
     \/ /\ Request("metadata", <<>>, Refused)
        /\ Fail("HTTPError")
        /\ locals' = locals
  /\ UNCHANGED <<pipeline, args, dirs, files, outputs, nameVars>>

create_file_name ==
  /\ pipeline = "leyre" /\ pc = "create_file_name"
  /\ Call("create_file_name")
  /\ Goto("save_file")
  /\ locals' = Put(locals, "file_name",
                   create_file_name_fn(args.org_units, args.start_date,
                                       args.end_date))
  /\ UNCHANGED <<pipeline, args, net, dirs, files, outputs, nameVars>>

\* save_file: df.to_csv(file_name, index=False), which raises OSError on
\* an unwritable destination, then current_run.add_file_output(file_name)
save_file ==
  /\ pipeline = "leyre" /\ pc = "save_file"
  /\ Call("save_file")
  /\ \/ /\ files' = Put(files, locals.file_name, to_csv(locals.df_final))
        /\ outputs' = Append(outputs, locals.file_name)
        /\ Goto("done")
     \/ /\ Fail("OSError")
        /\ UNCHANGED <<files, outputs>>
  /\ UNCHANGED <<pipeline, args, locals, net, dirs, nameVars>>

(* ----------------------- rita_iaso_exercise --------------------------- *)
\* @parameter("country", choices=[...])
country_choices ==
  { <<"A","l","g","e","r","i","a">>,
    <<"A","n","g","o","l","a">>,
    <<"B","e","n","i","n">>,
    <<"B","o","t","s","w","a","n","a">>,
    <<"B","u","r","k","i","n","a"," ","F","a","s","o">>,
    <<"B","u","r","u","n","d","i">>,
    <<"C","a","b","o"," ","V","e","r","d","e">>,
    <<"C","a","m","e","r","o","o","n">>,
    <<"C","e","n","t","r","a","l"," ","A","f","r","i","c","a","n"," ","R","e","p","u","b","l","i","c">>,
    <<"C","h","a","d">>,
    <<"C","o","m","o","r","o","s">>,
    <<"C","o","n","g","o">>,
    <<"C","o_circ","t","e"," ","d","rsquo","I","v","o","i","r","e">>,
    <<"D","e","m","o","c","r","a","t","i","c"," ","R","e","p","u","b","l","i","c"," ","o","f"," ","t","h","e"," ","C","o","n","g","o">>,
    <<"E","q","u","a","t","o","r","i","a","l"," ","G","u","i","n","e","a">>,
    <<"E","r","i","t","r","e","a">>,
    <<"E","s","w","a","t","i","n","i">>,
    <<"E","t","h","i","o","p","i","a">>,
    <<"G","a","b","o","n">>,
    <<"G","a","m","b","i","a">>,
    <<"G","h","a","n","a">>,
    <<"G","u","i","n","e","a">>,
    <<"G","u","i","n","e","a","-","B","i","s","s","a","u">>,
    <<"K","e","n","y","a">>,
    <<"L","e","s","o","t","h","o">>,
    <<"L","i","b","e","r","i","a">>,
    <<"M","a","d","a","g","a","s","c","a","r">>,
    <<"M","a","l","a","w","i">>,
    <<"M","a","l","i">>,
    <<"M","a","u","r","i","t","a","n","i","a">>,
    <<"M","a","u","r","i","t","i","u","s">>,
    <<"M","o","z","a","m","b","i","q","u","e">>,
    <<"N","a","m","i","b","i","a">>,
    <<"N","i","g","e","r">>,
    <<"N","i","g","e","r","i","a">>,
    <<"R","w","a","n","d","a">>,
    <<"S","a","o"," ","T","o","m","e"," ","a","n","d"," ","P","r","i","n","c","i","p","e">>,
    <<"S","e","n","e","g","a","l">>,
    <<"S","e","y","c","h","e","l","l","e","s">>,
    <<"S","i","e","r","r","a"," ","L","e","o","n","e">>,
    <<"S","o","u","t","h"," ","A","f","r","i","c","a">>,
    <<"S","o","u","t","h"," ","S","u","d","a","n">>,
    <<"T","o","g","o">>,
    <<"U","g","a","n","d","a">>,
    <<"U","n","i","t","e","d"," ","R","e","p","u","b","l","i","c"," ","o","f"," ","T","a","n","z","a","n","i","a">>,
    <<"Z","a","m","b","i","a">>,
    <<"Z","i","m","b","a","b","w","e">> }

\* fetch_org_units_data: country_to_org_unit_parent_id_local; the ids are
\* written as the decimal text the f-string gives them
country_to_org_unit_parent_id_local ==
  (<<"A","l","g","e","r","i","a">> :> <<"2","9","6","8","8">>)
  @@ (<<"A","n","g","o","l","a">> :> <<"2","9","6","7","9">>)
  @@ (<<"B","e","n","i","n">> :> <<"2","9","6","8","1">>)
  @@ (<<"B","o","t","s","w","a","n","a">> :> <<"2","9","6","8","3">>)
  @@ (<<"B","u","r","k","i","n","a"," ","F","a","s","o">> :> <<"2","9","6","8","2">>)
  @@ (<<"B","u","r","u","n","d","i">> :> <<"2","9","6","8","0">>)
  @@ (<<"C","a","b","o"," ","V","e","r","d","e">> :> <<"2","9","6","8","7">>)
  @@ (<<"C","a","m","e","r","o","o","n">> :> <<"2","9","6","8","5">>)
  @@ (<<"C","e","n","t","r","a","l"," ","A","f","r","i","c","a","n"," ","R","e","p","u","b","l","i","c">> :> <<"2","9","6","8","4">>)
  @@ (<<"C","h","a","d">> :> <<"2","9","7","2","0">>)
  @@ (<<"C","o","m","o","r","o","s">> :> <<"2","9","6","8","6">>)
  @@ (<<"C","o","n","g","o">> :> <<"2","9","7","2","8">>)
  @@ (<<"C","o_circ","t","e"," ","d","rsquo","I","v","o","i","r","e">> :> <<"2","9","7","2","9">>)
  @@ (<<"D","e","m","o","c","r","a","t","i","c"," ","R","e","p","u","b","l","i","c"," ","o","f"," ","t","h","e"," ","C","o","n","g","o">> :> <<"2","9","7","2","7">>)
  @@ (<<"E","q","u","a","t","o","r","i","a","l"," ","G","u","i","n","e","a">> :> <<"2","9","6","9","7">>)
  @@ (<<"E","r","i","t","r","e","a">> :> <<"2","9","6","8","9">>)
  @@ (<<"E","s","w","a","t","i","n","i">> :> <<"2","9","7","1","8">>)
  @@ (<<"E","t","h","i","o","p","i","a">> :> <<"2","9","6","9","1">>)
  @@ (<<"G","a","b","o","n">> :> <<"2","9","6","9","2">>)
  @@ (<<"G","a","m","b","i","a">> :> <<"2","9","6","9","5">>)
  @@ (<<"G","h","a","n","a">> :> <<"2","9","6","9","3">>)
  @@ (<<"G","u","i","n","e","a">> :> <<"2","9","6","9","4">>)
  @@ (<<"G","u","i","n","e","a","-","B","i","s","s","a","u">> :> <<"2","9","6","9","6">>)
  @@ (<<"K","e","n","y","a">> :> <<"2","9","6","9","8">>)
  @@ (<<"L","e","s","o","t","h","o">> :> <<"2","9","7","0","0">>)
  @@ (<<"L","i","b","e","r","i","a">> :> <<"2","9","6","9","9">>)
  @@ (<<"M","a","d","a","g","a","s","c","a","r">> :> <<"2","9","7","0","1">>)
  @@ (<<"M","a","l","a","w","i">> :> <<"2","9","7","0","6">>)
  @@ (<<"M","a","l","i">> :> <<"2","9","7","0","2">>)
  @@ (<<"M","a","u","r","i","t","a","n","i","a">> :> <<"2","9","7","0","4">>)
  @@ (<<"M","a","u","r","i","t","i","u","s">> :> <<"2","9","7","0","5">>)
  @@ (<<"M","o","z","a","m","b","i","q","u","e">> :> <<"2","9","7","0","3">>)
  @@ (<<"N","a","m","i","b","i","a">> :> <<"2","9","7","0","8">>)
  @@ (<<"N","i","g","e","r">> :> <<"2","9","7","0","9">>)
  @@ (<<"N","i","g","e","r","i","a">> :> <<"2","9","7","1","0">>)
  @@ (<<"R","w","a","n","d","a">> :> <<"2","9","7","1","2">>)
  @@ (<<"S","a","o"," ","T","o","m","e"," ","a","n","d"," ","P","r","i","n","c","i","p","e">> :> <<"2","9","7","1","7">>)
  @@ (<<"S","e","n","e","g","a","l">> :> <<"2","9","7","1","3">>)
  @@ (<<"S","e","y","c","h","e","l","l","e","s">> :> <<"2","9","7","1","9">>)
  @@ (<<"S","i","e","r","r","a"," ","L","e","o","n","e">> :> <<"2","9","7","1","5">>)
  @@ (<<"S","o","u","t","h"," ","A","f","r","i","c","a">> :> <<"2","9","7","2","4">>)
  @@ (<<"S","o","u","t","h"," ","S","u","d","a","n">> :> <<"2","9","7","1","6">>)
  @@ (<<"T","o","g","o">> :> <<"2","9","7","2","1">>)
  @@ (<<"U","g","a","n","d","a">> :> <<"2","9","7","2","3">>)
  @@ (<<"U","n","i","t","e","d"," ","R","e","p","u","b","l","i","c"," ","o","f"," ","T","a","n","z","a","n","i","a">> :> <<"2","9","7","2","2">>)
  @@ (<<"Z","a","m","b","i","a">> :> <<"2","9","7","2","5">>)
  @@ (<<"Z","i","m","b","a","b","w","e">> :> <<"2","9","7","2","6">>)

\* @parameter("level", choices=[...])
level_choices ==
  { <<"C","o","u","n","t","r","y">>, <<"R","e","g","i","o","n","s">>,
    <<"D","i","s","t","r","i","c","t","s">>, <<"F","O","S","A","s">> }

\* fetch_org_units_data: level_to_org_unit_type_id
level_to_org_unit_type_id ==
  (<<"F","O","S","A","s">> :> <<"8">>)
  @@ (<<"D","i","s","t","r","i","c","t","s">> :> <<"7">>)
  @@ (<<"R","e","g","i","o","n","s">> :> <<"6">>)
  @@ (<<"C","o","u","n","t","r","y">> :> <<"5">>)

\* str(None), as an f-string writes a missing value
NoneText == <<"N","o","n","e">>

\* f"{table.get(key)}": the value, or the text None for a key not in the table
GetText(table, key) == IF key \in DOMAIN table THEN table[key] ELSE NoneText

\* str.replace(old, new) for a one-character old
Replace(s, old, new) ==
  Concat([i \in 1..Len(s) |-> IF s[i] = old THEN new ELSE <<s[i]>>])

\* the same without the last replace
safe_country_name_keeps_rsquo(country) ==
  Replace(Replace(country, " ", <<"_">>), "'", <<>>)

\* country.replace(" ", "_").replace("'", "").replace(U+2019, "")
safe_country_name(country) ==
  Replace(Replace(Replace(country, " ", <<"_">>), "'", <<>>), "rsquo", <<>>)

\* f"{safe_country_name}_{level}.csv"
rita_file_name(country, level) ==
  safe_country_name(country) \o <<"_">> \o level \o <<".","c","s","v">>

directory_name == <<"r","i","t","a","_","i","a","s","o","_","e","x","e","r","c","i","s","e">>

\* os.path.join(a, b) for a relative b
path_join(a, b) ==
  IF a # <<>> /\ a[Len(a)] = "/" THEN a \o b ELSE a \o <<"/">> \o b

\* export_dataframe_to_csv: target_directory and full_path
target_directory_of(dir) == path_join(files_path, dir)

full_path_of(dir, file_name) == path_join(target_directory_of(dir), file_name)

\* retrieve_iaso_auth_headers: token_url
token_url_of(base_url) ==
  (IF base_url # <<>> /\ base_url[Len(base_url)] = "/" THEN base_url
   ELSE base_url \o <<"/">>) \o <<"a","p","i","/","t","o","k","e","n","/">>

\* fetch_org_units_data: endpoint
endpoint_of(level_param, country_name) ==
  Concat(<< <<"h","t","t","p","s",":","/","/","w","w","w",".","p","o","l","i",
              "o","o","u","t","b","r","e","a","k","s",".","c","o","m","/","a",
              "p","i","/","o","r","g","u","n","i","t","s","/","?","s","o","u",
              "r","c","e","_","i","d","=","2","&","v","a","l","i","d","a","t",
              "i","o","n","_","s","t","a","t","u","s","=","a","l","l","&","o",
              "r","g","U","n","i","t","T","y","p","e","I","d","=">>,
            GetText(level_to_org_unit_type_id, level_param),
            <<"&","o","r","g","U","n","i","t","P","a","r","e","n","t","I","d","=">>,
            GetText(country_to_org_unit_parent_id_local, country_name) >>)

\* Response.raise_for_status(): HTTPError for a 4xx or 5xx status
RaisesForStatus(status) == status >= 400 /\ status < 600

\* the connection's url, with and without a trailing slash
BaseUrls ==
  { <<"h","t","t","p","s",":","/","/","i","a","s","o">>,
    <<"h","t","t","p","s",":","/","/","i","a","s","o","/">> }

\* what the token endpoint may answer: the token, a JSON object without
\* "access", a refusal, a body that is not JSON
TokenResponses ==
  { [status |-> 200, json |-> TRUE, body |-> [access |-> <<"t","0","k">>]],
    [status |-> 200, json |-> TRUE, body |-> [detail |-> <<"n","o">>]],
    [status |-> 401, json |-> TRUE, body |-> [detail |-> <<"n","o">>]],
    [status |-> 200, json |-> FALSE, body |-> [x \in {} |-> x]] }

\* transform_org_units_to_dataframe: the columns of processed_df
org_unit_columns ==
  <<"name", "id", "parent_id", "org_unit_type_id", "org_unit_type_name",
    "validation_status", "created_at", "updated_at", "latitude",
    "longitude", "altitude", "aliases">>

\* org units as the IASO API returns them; the last one lacks most fields
UnitSamples ==
  { [name |-> "Adrar", id |-> "30001", parent_id |-> "29688",
     org_unit_type_id |-> "6", org_unit_type_name |-> "Region",
     validation_status |-> "VALID", created_at |-> "1700000000",
     updated_at |-> "1700000001", latitude |-> "27.9", longitude |-> "-0.3",
     altitude |-> "258", aliases |-> "Adrar1"],
    [name |-> "Oran", id |-> "30002", parent_id |-> "29688",
     org_unit_type_id |-> "6", org_unit_type_name |-> "Region",
     validation_status |-> "NEW", created_at |-> "1700000002",
     updated_at |-> "1700000003", latitude |-> "35.7", longitude |-> "-0.6",
     altitude |-> "101", aliases |-> "Wahran"],
    [name |-> "Blida", id |-> "30003"] }

UnitLists == SeqsUpTo(UnitSamples, MaxRecords)

\* what the org-unit endpoint may answer: a listing, a JSON object without
\* "orgUnits", the empty JSON object, a server error, a body that is not JSON
OrgUnitResponses ==
  { [status |-> 200, json |-> TRUE, body |-> [orgUnits |-> l]] : l \in UnitLists }
  \cup
  { [status |-> 200, json |-> TRUE, body |-> [count |-> "0"]],
    [status |-> 200, json |-> TRUE, body |-> [x \in {} |-> x]],
    [status |-> 500, json |-> TRUE, body |-> [detail |-> <<"n","o">>]],
    [status |-> 200, json |-> FALSE, body |-> [x \in {} |-> x]] }

\* a Python value that may be None
None == [isNone |-> TRUE, val |-> <<>>]

Some(v) == [isNone |-> FALSE, val |-> v]

\* body.get(key) for a JSON object
JsonGet(body, key) == IF key \in DOMAIN body THEN Some(body[key]) ELSE None

\* f"{x}" for a value that may be None
TextOf(x) == IF x.isNone THEN NoneText ELSE x.val

\* `if org_units_list:` -- None and the empty list are both false
Truthy(x) == ~x.isNone /\ x.val # <<>>

\* transform_org_units_to_dataframe(org_units_list)
transform_org_units_to_dataframe_fn(org_units_list) ==
  [columns |-> org_unit_columns,
   rows |-> IF Truthy(org_units_list)
            THEN [i \in 1..Len(org_units_list.val) |->
                    [c \in Range(org_unit_columns) |->
                       DictGet(org_units_list.val[i], c)]]
            ELSE <<>>]

\* retrieve_iaso_auth_headers(): the workspace connection (which may not
\* exist), then one POST to the token endpoint
retrieve_iaso_auth_headers ==
  /\ pipeline = "rita" /\ pc = "retrieve_iaso_auth_headers"
  /\ Call("retrieve_iaso_auth_headers")
  /\ \/ \E base_url \in BaseUrls, r_token \in TokenResponses :
          /\ Request("POST", token_url_of(base_url),
                     Seen(r_token.status, r_token.json, DOMAIN r_token.body))
          /\ IF RaisesForStatus(r_token.status)
             THEN Fail("HTTPError") /\ locals' = locals
             ELSE IF ~r_token.json
             THEN Fail("JSONDecodeError") /\ locals' = locals
             ELSE LET token == JsonGet(r_token.body, "access")
                  IN /\ Goto("fetch_org_units_data")
                     /\ locals' = Put(locals, "auth_headers",
                                      [Authorization |->
                                         <<"B","e","a","r","e","r"," ">>
                                           \o TextOf(token)])
     \/ /\ Fail("ConnectionDoesNotExist")
        /\ UNCHANGED <<net, locals>>
  /\ UNCHANGED <<pipeline, args, dirs, files, outputs, nameVars>>

\* fetch_org_units_data(headers, level_param, country_name): the lookups,
\* then one GET
fetch_org_units_data ==
  /\ pipeline = "rita" /\ pc = "fetch_org_units_data"
  /\ Call("fetch_org_units_data")
  /\ \E r_data \in OrgUnitResponses :
       /\ Request("GET", endpoint_of(args.level, args.country),
                  Seen(r_data.status, r_data.json, DOMAIN r_data.body))
       /\ IF RaisesForStatus(r_data.status)
          THEN Fail("HTTPError") /\ locals' = locals
          ELSE IF ~r_data.json
          THEN Fail("JSONDecodeError") /\ locals' = locals
          ELSE /\ Goto("transform_org_units_to_dataframe")
               /\ locals' = Put(locals, "org_units_raw_list",
                                JsonGet(r_data.body, "orgUnits"))
  /\ UNCHANGED <<pipeline, args, dirs, files, outputs, nameVars>>

transform_org_units_to_dataframe ==
  /\ pipeline = "rita" /\ pc = "transform_org_units_to_dataframe"
  /\ Call("transform_org_units_to_dataframe")
  /\ Goto("export_dataframe_to_csv")
  /\ locals' = Put(locals, "processed_df",
                   transform_org_units_to_dataframe_fn(
                     locals.org_units_raw_list))
  /\ UNCHANGED <<pipeline, args, net, dirs, files, outputs, nameVars>>

\* the file name (pipeline body), then export_dataframe_to_csv: makedirs
\* with exist_ok, to_csv(full_path, index=False), return full_path; either
\* file-system call raises OSError on an unwritable destination
export_dataframe_to_csv ==
  /\ pipeline = "rita" /\ pc = "export_dataframe_to_csv"
  /\ Call("export_dataframe_to_csv")
  /\ LET file_name == rita_file_name(args.country, args.level)
         target_directory == target_directory_of(directory_name)
         full_path == full_path_of(directory_name, file_name)
     IN \/ /\ dirs' = dirs \cup {target_directory}
           /\ files' = Put(files, full_path, to_csv(locals.processed_df))
           /\ locals' = Put(locals, "save_path", full_path)
           /\ Goto("done")
        \/ /\ dirs' = dirs \cup {target_directory}
           /\ Fail("OSError")
           /\ UNCHANGED <<files, locals>>
        \/ /\ target_directory \notin dirs
           /\ Fail("OSError")
           /\ UNCHANGED <<dirs, files, locals>>
  /\ UNCHANGED <<pipeline, args, net, outputs, nameVars>>

(* ------------------- dhis2_data_extraction_lionel --------------------- *)
Upper == <<"A","B","C","D","E","F","G","H","I","J","K","L","M",
           "N","O","P","Q","R","S","T","U","V","W","X","Y","Z">>

Lower == <<"a","b","c","d","e","f","g","h","i","j","k","l","m",
           "n","o","p","q","r","s","t","u","v","w","x","y","z">>

\* case folding of one character, as the (?i) flag compares
Fold(c) ==
  IF \E i \in 1..26 : Upper[i] = c
  THEN Lower[CHOOSE i \in 1..26 : Upper[i] = c]
  ELSE c

\* whether text contains word, ignoring case
ContainsFolded(text, word) ==
  \E k \in 0..(Len(text) - Len(word)) :
    \A j \in 1..Len(word) : Fold(text[k + j]) = Fold(word[j])

\* pl.col("name").str.contains("(?i)mpox|cholera|covid")
MatchesDisease(name) ==
  \/ ContainsFolded(name, <<"m","p","o","x">>)
  \/ ContainsFolded(name, <<"c","h","o","l","e","r","a">>)
  \/ ContainsFolded(name, <<"c","o","v","i","d">>)

\* retrieve_relevant_data_element_ids: filter, then the id column
relevant_data_element_ids(df) ==
  LET kept == SelectSeq(df, LAMBDA row : MatchesDisease(row.name))
  IN [i \in 1..Len(kept) |-> kept[i].id]

\* ds_values.filter(pl.col("data_element_id").is_in(de_ids))
filter_data_set(ds_values, de_ids) ==
  SelectSeq(ds_values, LAMBDA row : row.data_element_id \in Range(de_ids))

\* the pieces of s between the separators sep
RECURSIVE Split(_, _, _)
Split(s, sep, cur) ==
  IF s = <<>> THEN <<cur>>
  ELSE IF Head(s) = sep THEN <<cur>> \o Split(Tail(s), sep, <<>>)
  ELSE Split(Tail(s), sep, Append(cur, Head(s)))

RECURSIVE NumberOf(_)
NumberOf(ds) ==
  IF ds = <<>> THEN 0
  ELSE NumberOf(SubSeq(ds, 1, Len(ds) - 1)) * 10 + DigitVal(ds[Len(ds)])

AllDigits(s) == \A i \in 1..Len(s) : IsDigit(s[i])

\* datetime.strptime(s, "%Y-%m-%d") succeeds: four year digits, a month
\* 1..12 and a day of that month, each of one or two digits
IsYmd(s) ==
  LET parts == Split(s, "-", <<>>)
  IN /\ Len(parts) = 3
     /\ Len(parts[1]) = 4 /\ AllDigits(parts[1])
     /\ Len(parts[2]) \in 1..2 /\ AllDigits(parts[2])
     /\ Len(parts[3]) \in 1..2 /\ AllDigits(parts[3])
     /\ NumberOf(parts[2]) \in 1..12
     /\ NumberOf(parts[3]) >= 1
     /\ NumberOf(parts[3]) <= DaysInMonth(NumberOf(parts[1]), NumberOf(parts[2]))

\* the datetime strptime gives
ParseYmd(s) ==
  LET parts == Split(s, "-", <<>>)
  IN <<NumberOf(parts[1]), NumberOf(parts[2]), NumberOf(parts[3])>>

\* start/end dates of the runs: two days and a string in the wrong format
LionelDateSamples ==
  { <<"2","0","2","5","-","0","1","-","0","1">>,
    <<"2","0","2","5","-","0","1","-","3","1">>,
    <<"2","0","2","5","0","1","0","1">> }

\* answers of GET dataSets?filter=name:ilike:<group_name>
DataSetListings ==
  { <<>>,
    <<[id |-> "ds1", displayName |-> "00 DSNIS : SIMR"]>>,
    <<[id |-> "ds1", displayName |-> "00 DSNIS : SIMR"],
      [id |-> "ds2", displayName |-> "00 DSNIS : SIMR bis"]>> }

\* rows of get_data_elements(connection)
DataElementSamples ==
  { [id |-> "de1", name |-> <<"C","a","s"," ","d","e"," ","M","p","o","x">>],
    [id |-> "de2", name |-> <<"P","a","l","u","d","i","s","m","e">>],
    [id |-> "de3", name |-> <<"C","O","V","I","D","-","1","9">>] }

DataElementLists == SeqsUpTo(DataElementSamples, MaxRecords)

\* rows of extract_dataset(...)
DataValueSamples ==
  { [data_element_id |-> "de1", value |-> "3"],
    [data_element_id |-> "de2", value |-> "4"] }

DataValueLists == SeqsUpTo(DataValueSamples, MaxRecords)

connect_to_dhis2 ==
  /\ pipeline = "lionel" /\ pc = "connect_to_dhis2"
  /\ Call("connect_to_dhis2")
  /\ \/ /\ Request("dhis2_connect", <<>>, Answered)
        /\ Goto("extract_dsnis_simr_dataset_id")
        /\ locals' = Put(locals, "connector", "DHIS2")
     \/ /\ Request("dhis2_connect", <<>>, Refused)
        /\ Fail("ConnectionError")
        /\ locals' = locals
     \/ /\ Fail("ConnectionDoesNotExist")
        /\ UNCHANGED <<net, locals>>
  /\ UNCHANGED <<pipeline, args, dirs, files, outputs, nameVars>>

\* extract_dsnis_simr_dataset_id: data_set['dataSets'][0]['id'] raises
\* IndexError on an empty listing
extract_dsnis_simr_dataset_id ==
  /\ pipeline = "lionel" /\ pc = "extract_dsnis_simr_dataset_id"
  /\ Call("extract_dsnis_simr_dataset_id")
  /\ \/ /\ Request("dataSets", <<>>, Answered)
        /\ \E listing \in DataSetListings :
             IF listing = <<>> THEN Fail("IndexError") /\ locals' = locals
             ELSE Goto("retrieve_relevant_data_element_ids")
                  /\ locals' = Put(locals, "ds_id", listing[1].id)
     \/ /\ Request("dataSets", <<>>, Refused)
        /\ Fail("HTTPError")
        /\ locals' = locals
  /\ UNCHANGED <<pipeline, args, dirs, files, outputs, nameVars>>

retrieve_relevant_data_element_ids ==
  /\ pipeline = "lionel" /\ pc = "retrieve_relevant_data_element_ids"
  /\ Call("retrieve_relevant_data_element_ids")
  /\ \/ /\ Request("dataElements", <<>>, Answered)
        /\ \E df \in DataElementLists :
             Goto("retrieve_data_set")
             /\ locals' = Put(locals, "de_ids", relevant_data_element_ids(df))
     \/ /\ Request("dataElements", <<>>, Refused)
        /\ Fail("HTTPError")
        /\ locals' = locals
  /\ UNCHANGED <<pipeline, args, dirs, files, outputs, nameVars>>

\* retrieve_data_set: both strptime calls come before the extraction
\* request; the filtered frame is what the pipeline returns
retrieve_data_set ==
  /\ pipeline = "lionel" /\ pc = "retrieve_data_set"
  /\ Call("retrieve_data_set")
  /\ IF ~IsYmd(args.start_date) \/ ~IsYmd(args.end_date)
     THEN Fail("ValueError") /\ UNCHANGED <<locals, net>>
     ELSE \/ /\ Request("dataValueSets", <<>>, Answered)
             /\ \E ds_values \in DataValueLists :
                  Goto("done")
                  /\ locals' = Put(locals, "ds",
                                   filter_data_set(ds_values, locals.de_ids))
          \/ /\ Request("dataValueSets", <<>>, Refused)
             /\ Fail("HTTPError")
             /\ locals' = locals
  /\ UNCHANGED <<pipeline, args, dirs, files, outputs, nameVars>>

(* ------------------------- specifications ----------------------------- *)
EmptyDict == [x \in {} |-> x]

NamesIdle == invA = None /\ invB = None /\ pathA = None /\ pathB = None

LeyreArgs ==
  [org_units : OrgUnitLists, start_date : RunDateSamples,
   end_date : RunDateSamples]

LionelArgs ==
  [start_date : LionelDateSamples, end_date : LionelDateSamples,
   org_unit_ids : {<<"rdX5nU5lrcx">>}]

\* a country and a level outside the declared choices stand for a caller
\* that does not go through the parameter screen of the workflow runner
RitaArgs ==
  [country : country_choices \cup {<<"A","t","l","a","n","t","i","s">>},
   level : level_choices \cup {<<"W","a","r","d","s">>}]

FirstStep(p) ==
  CASE p = "leyre" -> "get_dhis2"
    [] p = "lionel" -> "connect_to_dhis2"
    [] p = "rita" -> "retrieve_iaso_auth_headers"

\* one invocation of one pipeline; the workspace directory exists, the
\* pipeline's own sub-directory may or may not
Init ==
  /\ pipeline \in {"leyre", "lionel", "rita"}
  /\ args \in (CASE pipeline = "leyre" -> LeyreArgs
                 [] pipeline = "lionel" -> LionelArgs
                 [] pipeline = "rita" -> RitaArgs)
  /\ pc = FirstStep(pipeline)
  /\ locals = EmptyDict
  /\ error = "none"
  /\ calls = <<>>
  /\ net = <<>>
  /\ dirs \in {{files_path}, {files_path, target_directory_of(directory_name)}}
  /\ files = EmptyDict
  /\ outputs = <<>>
  /\ NamesIdle

Next ==
  \/ get_dhis2
  \/ get_periods
  \/ get_elements
  \/ format_elements
  \/ format_df
  \/ create_file_name
  \/ save_file
  \/ connect_to_dhis2
  \/ extract_dsnis_simr_dataset_id
  \/ retrieve_relevant_data_element_ids
  \/ retrieve_data_set
  \/ retrieve_iaso_auth_headers
  \/ fetch_org_units_data
  \/ transform_org_units_to_dataframe
  \/ export_dataframe_to_csv

Spec == Init /\ [][Next]_vars

\* get_periods on every pair of year-month strings of the modelled years,
\* entered as the pipeline enters it: after get_dhis2
InitPeriods ==
  /\ pipeline = "leyre"
  /\ pc = "get_periods"
  /\ args \in [org_units : {<< <<"A">> >>}, start_date : YearMonthStrings,
               end_date : YearMonthStrings]
  /\ locals = [dhis2 |-> "DHIS2"]
  /\ error = "none"
  /\ calls = <<"get_dhis2">>
  /\ net = <<[kind |-> "dhis2_connect", detail |-> <<>>, response |-> Answered]>>
  /\ dirs = {files_path}
  /\ files = EmptyDict
  /\ outputs = <<>>
  /\ NamesIdle

NextPeriods == get_periods

SpecPeriods == InitPeriods /\ [][NextPeriods]_vars

(* -------------------- output paths of two invocations ----------------- *)
\* the path an invocation writes to
output_path(inv) ==
  IF inv.pipeline = "leyre"
  THEN create_file_name_fn(inv.args.org_units, inv.args.start_date,
                           inv.args.end_date)
  ELSE full_path_of(directory_name,
                    rita_file_name(inv.args.country, inv.args.level))

\* the invocations that can reach their write: a leyre run with a malformed
\* date stops in get_periods
Invocations(p) ==
  IF p = "leyre"
  THEN {i \in [pipeline : {"leyre"}, args : LeyreArgs] :
          IsYm(i.args.start_date) /\ IsYm(i.args.end_date)}
  ELSE [pipeline : {"rita"},
        args : [country : country_choices, level : level_choices]]

\* two invocations of the same pipeline, started with any parameters
InitNames ==
  /\ \E p \in {"leyre", "rita"} :
       /\ invA \in {Some(i) : i \in Invocations(p)}
       /\ invB \in {Some(i) : i \in Invocations(p)}
  /\ pathA = None
  /\ pathB = None
  /\ pipeline = "none"
  /\ pc = "idle"
  /\ args = EmptyDict
  /\ locals = EmptyDict
  /\ error = "none"
  /\ calls = <<>>
  /\ net = <<>>
  /\ dirs = {files_path}
  /\ files = EmptyDict
  /\ outputs = <<>>

NameFirst ==
  /\ pathA = None
  /\ pathA' = Some(output_path(invA.val))
  /\ UNCHANGED <<invA, invB, pathB, runVars>>

NameSecond ==
  /\ pathB = None
  /\ pathB' = Some(output_path(invB.val))
  /\ UNCHANGED <<invA, invB, pathA, runVars>>

NextNames == NameFirst \/ NameSecond

SpecNames == InitNames /\ [][NextNames]_vars

(* ------------------------------ claims -------------------------------- *)
MonthIndex(s) == ParseYm(s)[1] * 12 + ParseYm(s)[2] - 1

YmOfIndex(k) == FormatYm(<<k \div 12, (k % 12) + 1, 1>>)

PeriodsRan == calls # <<>> /\ calls[Len(calls)] = "get_periods"

\* C1: for valid year-month strings start <= end, get_periods returns
\* exactly the months start, start+1, ..., end in increasing order, both
\* ends included, and nothing else (it does not fail).
C1_PeriodsCoverRange ==
  (/\ PeriodsRan
   /\ IsYm(args.start_date) /\ IsYm(args.end_date)
   /\ MonthIndex(args.start_date) <= MonthIndex(args.end_date))
  => /\ error = "none"
     /\ "periods" \in DOMAIN locals
     /\ locals.periods =
          [i \in 1..(MonthIndex(args.end_date)
                       - MonthIndex(args.start_date) + 1) |->
             YmOfIndex(MonthIndex(args.start_date) + i - 1)]

\* C1 witness: a range that crosses a year boundary has been expanded
C1_Witness ==
  /\ PeriodsRan
  /\ "periods" \in DOMAIN locals
  /\ Len(locals.periods) = 4
  /\ args.start_date[4] # args.end_date[4]
  /\ locals.periods[1] = args.start_date
  /\ locals.periods[4] = args.end_date

LastCall == IF calls = <<>> THEN "none" ELSE calls[Len(calls)]

Called(fn) == fn \in Range(calls)

\* C2: in rita_iaso_exercise a country or level that is not a key of its
\* lookup table fails the run before any network call: no request (token
\* POST or org-unit GET) is ever sent, and once a step has run the run has
\* stopped with a configuration error.
UnknownKey ==
  /\ pipeline = "rita"
  /\ \/ args.country \notin DOMAIN country_to_org_unit_parent_id_local
     \/ args.level \notin DOMAIN level_to_org_unit_type_id

C2_UnknownKeyFailsBeforeNetwork ==
  UnknownKey => /\ net = <<>>
                /\ pc \in {"retrieve_iaso_auth_headers", "failed"}

\* C3: whenever the token response has a non-success status or its JSON
\* body lacks "access", retrieve_iaso_auth_headers fails: no headers are
\* returned and the fetch stage is not reached.
BadTokenResponse ==
  \E i \in DOMAIN net :
    /\ net[i].kind = "POST"
    /\ \/ RaisesForStatus(net[i].response.status)
       \/ "access" \notin net[i].response.keys

C3_BadTokenResponseIsAuthError ==
  (pipeline = "rita" /\ BadTokenResponse)
  => /\ error # "none"
     /\ "auth_headers" \notin DOMAIN locals
     /\ ~Called("fetch_org_units_data")

\* C4: in every variant the Transformer given an empty sequence of raw
\* records returns an empty result carrying the full fixed column schema,
\* and never raises.
C4_EmptyInputGivesEmptyFrame ==
  /\ (/\ pipeline = "rita"
      /\ "processed_df" \in DOMAIN locals
      /\ ~Truthy(locals.org_units_raw_list))
     => /\ locals.processed_df.columns = org_unit_columns
        /\ locals.processed_df.rows = <<>>
  /\ (/\ pipeline = "leyre"
      /\ "elements" \in DOMAIN locals
      /\ locals.elements = <<>>
      /\ LastCall \in {"format_elements", "format_df"}
      /\ net[Len(net)].response.status = 200)
     => /\ error = "none"
        /\ "df_final" \in DOMAIN locals
           => /\ locals.df_final.columns = list_output
              /\ locals.df_final.rows = <<>>

\* C5: for a non-empty sequence of raw records, records lacking fields
\* included, the Transformer does not fail and its output has exactly the
\* declared columns in the declared order, one row per input record in
\* input order, a missing field being an explicit null.
SourceOfColumn ==
  [dataElement |-> "dx", orgUnit |-> "ou", period |-> "pe",
   value |-> "value", CategoryOption |-> "co"]

C5_SchemaHoldsForPartialRecords ==
  /\ (/\ pipeline = "rita"
      /\ "processed_df" \in DOMAIN locals
      /\ Truthy(locals.org_units_raw_list))
     => LET raw == locals.org_units_raw_list.val
            df == locals.processed_df
        IN /\ df.columns = org_unit_columns
           /\ Len(df.rows) = Len(raw)
           /\ \A i \in 1..Len(raw) :
                /\ DOMAIN df.rows[i] = Range(org_unit_columns)
                /\ \A c \in Range(org_unit_columns) :
                     df.rows[i][c] = (IF c \in DOMAIN raw[i] THEN raw[i][c]
                                      ELSE Null)
  /\ (/\ pipeline = "leyre"
      /\ LastCall = "format_df"
      /\ locals.elements # <<>>
      /\ net[Len(net)].response.status = 200)
     => /\ error = "none"
        /\ "df_final" \in DOMAIN locals
        /\ LET raw == locals.elements
               df == locals.df_final
           IN /\ df.columns = list_output
              /\ Len(df.rows) = Len(raw)
              /\ \A i \in 1..Len(raw) :
                   /\ DOMAIN df.rows[i] = Range(list_output)
                   /\ \A c \in DOMAIN SourceOfColumn :
                        df.rows[i][c] =
                          (IF SourceOfColumn[c] \in DOMAIN raw[i]
                           THEN raw[i][SourceOfColumn[c]] ELSE Null)

\* C6: a run of any of the three pipelines that completes without error
\* has gone through Authenticator, Fetcher, Transformer, Exporter in that
\* order, none skipped or repeated, and has written a CSV file.
StagesOf(fn) ==
  CASE fn \in {"get_dhis2", "connect_to_dhis2", "retrieve_iaso_auth_headers"}
         -> <<"Authenticator">>
    [] fn \in {"get_periods", "get_elements", "fetch_org_units_data",
               "extract_dsnis_simr_dataset_id"}
         -> <<"Fetcher">>
    [] fn \in {"retrieve_relevant_data_element_ids", "retrieve_data_set"}
         -> <<"Fetcher", "Transformer">>
    [] fn \in {"format_elements", "format_df",
               "transform_org_units_to_dataframe"}
         -> <<"Transformer">>
    [] fn \in {"create_file_name", "save_file", "export_dataframe_to_csv"}
         -> <<"Exporter">>

RECURSIVE StageTrace(_)
StageTrace(cs) ==
  IF cs = <<>> THEN <<>>
  ELSE LET before == StageTrace(SubSeq(cs, 1, Len(cs) - 1))
           now == StagesOf(cs[Len(cs)])
       IN IF before # <<>> /\ before[Len(before)] = now[1]
          THEN before \o Tail(now)
          ELSE before \o now

C6_CompletedRunsGoThroughFourStages ==
  (pc = "done" /\ error = "none")
  => /\ StageTrace(calls) =
          <<"Authenticator", "Fetcher", "Transformer", "Exporter">>
     /\ DOMAIN files # {}

\* C7: in rita_iaso_exercise a non-success org-unit response, or a JSON
\* body that is empty or lacks "orgUnits", aborts the run with an error:
\* Transformer and Exporter do not run and no file is written.
BadOrgUnitResponse ==
  \E i \in DOMAIN net :
    /\ net[i].kind = "GET"
    /\ \/ RaisesForStatus(net[i].response.status)
       \/ ~net[i].response.json
       \/ "orgUnits" \notin net[i].response.keys

C7_BadFetchAbortsRun ==
  (pipeline = "rita" /\ BadOrgUnitResponse)
  => /\ error # "none"
     /\ ~Called("transform_org_units_to_dataframe")
     /\ ~Called("export_dataframe_to_csv")
     /\ DOMAIN files = {}

\* C8: in every variant a written output file is afterwards registered
\* with the run, that same path exactly once, and nothing is registered
\* that was not written.
C8_WrittenFilesAreRegisteredOnce ==
  /\ \A i \in DOMAIN outputs : outputs[i] \in DOMAIN files
  /\ pc = "done"
     => \A path \in DOMAIN files :
          Cardinality({i \in DOMAIN outputs : outputs[i] = path}) = 1

\* C9: for an allowed country and level and a fetched list of N org
\* units, a completed rita_iaso_exercise run has the directory
\* <workspace>/rita_iaso_exercise, and has written at
\* <workspace>/rita_iaso_exercise/<country, spaces as underscores,
\* apostrophes removed>_<level>.csv the header row plus exactly N data
\* rows, and returned that path.
ExpectedSafeName(country) ==
  LET kept == SelectSeq(country, LAMBDA c : c \notin {"'", "rsquo"})
  IN [i \in 1..Len(kept) |-> IF kept[i] = " " THEN "_" ELSE kept[i]]

ExpectedRitaPath(country, level) ==
  Concat(<< files_path, <<"/">>,
            <<"r","i","t","a","_","i","a","s","o","_","e","x","e","r","c",
              "i","s","e">>,
            <<"/">>, ExpectedSafeName(country), <<"_">>, level,
            <<".","c","s","v">> >>)

RitaDone ==
  /\ pipeline = "rita"
  /\ pc = "done"
  /\ args.country \in country_choices
  /\ args.level \in level_choices
  /\ ~locals.org_units_raw_list.isNone

C9_RitaWritesHeaderAndNRows ==
  RitaDone
  => LET path == ExpectedRitaPath(args.country, args.level)
         n == Len(locals.org_units_raw_list.val)
     IN /\ Concat(<<files_path, <<"/">>, directory_name>>) \in dirs
        /\ DOMAIN files = {path}
        /\ locals.save_path = path
        /\ Len(files[path]) = n + 1
        /\ files[path][1] = org_unit_columns
        /\ \A i \in 2..(n + 1) : Len(files[path][i]) = Len(org_unit_columns)

\* C9 witness: Algeria, Regions, two fetched org units: Algeria_Regions.csv
\* holds the header and two data rows
C9_Witness ==
  /\ RitaDone
  /\ args.country = <<"A","l","g","e","r","i","a">>
  /\ args.level = <<"R","e","g","i","o","n","s">>
  /\ Len(locals.org_units_raw_list.val) = 2
  /\ locals.save_path =
       <<"/","w","s","/","r","i","t","a","_","i","a","s","o","_","e","x",
         "e","r","c","i","s","e","/","A","l","g","e","r","i","a","_","R",
         "e","g","i","o","n","s",".","c","s","v">>
  /\ Len(files[locals.save_path]) = 3

\* C10: two invocations with different parameter combinations never get
\* the same output path: the file name is an injective function of the
\* parameters (country and level for rita_iaso_exercise; org-unit list,
\* start date and end date for data_extraction_leyre).
C10_DistinctParametersDistinctPaths ==
  (/\ ~pathA.isNone /\ ~pathB.isNone
   /\ invA # invB)
  => pathA # pathB

====
